---- MODULE Spec2Model ----
(***************************************************************************)
(* Model of the commute notification bot (src/main.py): the setup          *)
(* conversation, the settings store, the one-shot notification scheduler,  *)
(* the job bodies and the two retrying external clients.                   *)
(*                                                                         *)
(* Spec is the whole program with writes that succeed and job functions    *)
(* that run in one step.  ScheduleSpec, ClientSpec and JobSpec exercise    *)
(* schedule_notifications, the clients and the job functions over wider    *)
(* inputs; RerunSpec runs the job functions statement by statement beside  *)
(* the handlers; WriteFailSpec adds a settings file that refuses writes.   *)
(*                                                                         *)
(* Time is counted in whole seconds since midnight of day 0.  Texts are    *)
(* sequences of one-character strings, so that parsing and formatting are  *)
(* computed character by character.  A Python dict is a function whose     *)
(* DOMAIN is the set of keys present.  An optional value (None or a        *)
(* value) is a sequence of length 0 or 1.                                  *)
(***************************************************************************)
EXTENDS Integers, Sequences, FiniteSets, TLC

VARIABLES
    user_settings,  \* the global settings dict (main.py:20)
    disk,           \* settings.json: <<>> when the file is absent, else <<dict>>
    conv,           \* the conversation state kept by ConversationHandler
    reply,          \* the reply_text sent for the most recent update ("none": no handler ran)
    now,            \* wall clock, seconds since midnight of day 0
    schedulers,     \* the BackgroundScheduler instances started so far, each a job store
    sent,           \* the last outcome of context.bot.send_message in a job body
    net,            \* ClientSpec, JobSpec: the responses the services give to the
                    \* requests, in order; RerunSpec: the frame of the running job
    ret             \* ClientSpec: what the client call returned, and the requests it made

vars == <<user_settings, disk, conv, reply, now, schedulers, sent, net, ret>>

----------------------------------------------------------------------------
(* Bounds of the model *)

\* The clock stops advancing at the end of day MaxDay.
MaxDay == 0
\* At most this many schedule_notifications calls per process run.
MaxSchedulers == 2

----------------------------------------------------------------------------
(* Program constants *)

Retries == 3
PreviewMinutes == 30
SecondsPerMinute == 60
SecondsPerDay == 86400
ChatId == 7

None == <<>>
Some(v) == <<v>>

----------------------------------------------------------------------------
(* Texts *)

Digits == <<"0", "1", "2", "3", "4", "5", "6", "7", "8", "9">>
IsDigit(c) == \E i \in 1..10 : Digits[i] = c
DigitVal(c) == (CHOOSE i \in 1..10 : Digits[i] = c) - 1

\* One regex alternative at position p of s: the number of characters it
\* consumes, or 0 when it does not match.
H_2x(s, p) == IF Len(s) >= p + 1 /\ s[p] = "2" /\ s[p + 1] \in {"0", "1", "2", "3"} THEN 2 ELSE 0
H_0x(s, p) == IF Len(s) >= p + 1 /\ s[p] \in {"0", "1"} /\ IsDigit(s[p + 1]) THEN 2 ELSE 0
M_0x(s, p) == IF Len(s) >= p + 1 /\ s[p] \in {"0", "1", "2", "3", "4", "5"} /\ IsDigit(s[p + 1]) THEN 2 ELSE 0
D_x(s, p) == IF Len(s) >= p /\ IsDigit(s[p]) THEN 1 ELSE 0

NumVal(s, p, n) == IF n = 2 THEN 10 * DigitVal(s[p]) + DigitVal(s[p + 1]) ELSE DigitVal(s[p])

\* The rest of the pattern after an hour of hlen characters: ":" and the
\* minute, (?P<M>[0-5]\d|\d).  The number of characters of the minute, or 0.
MinuteAfter(s, hlen) ==
    IF hlen = 0 \/ Len(s) < hlen + 1 \/ s[hlen + 1] # ":" THEN 0
    ELSE IF M_0x(s, hlen + 2) # 0 THEN M_0x(s, hlen + 2) ELSE D_x(s, hlen + 2)

\* datetime.strptime(text, "%H:%M"): the pattern (?P<H>2[0-3]|[0-1]\d|\d):(?P<M>[0-5]\d|\d)
\* is matched at the start of the text, the alternatives tried in order; a
\* text with characters left after the match is a ValueError.
strptime(s) ==
    LET alts == <<H_2x(s, 1), H_0x(s, 1), D_x(s, 1)>>
        good == {i \in 1..3 : MinuteAfter(s, alts[i]) # 0}
    IN  IF good = {} THEN [ok |-> FALSE, hour |-> 0, minute |-> 0]
        ELSE LET i == CHOOSE j \in good : \A k \in good : j <= k
                 hlen == alts[i]
                 mlen == MinuteAfter(s, hlen)
             IN  IF hlen + 1 + mlen # Len(s) THEN [ok |-> FALSE, hour |-> 0, minute |-> 0]
                 ELSE [ok |-> TRUE, hour |-> NumVal(s, 1, hlen), minute |-> NumVal(s, hlen + 2, mlen)]

\* time.strftime("%H:%M"): both fields zero-padded to two digits.
strftime(hour, minute) ==
    <<Digits[(hour \div 10) + 1], Digits[(hour % 10) + 1], ":",
      Digits[(minute \div 10) + 1], Digits[(minute % 10) + 1]>>

\* The preview time stopping at midnight instead of wrapping.
PreTimeStr_clamped(s) ==
    LET t == strptime(s)
        d == t.hour * 60 + t.minute - PreviewMinutes
        m == IF d < 0 THEN 0 ELSE d
    IN  strftime(m \div 60, m % 60)

\* (datetime.strptime(text, "%H:%M") - timedelta(minutes=30)).time().strftime("%H:%M")
\* The parsed datetime is on 1900-01-01; .time() drops the date, so the
\* subtraction wraps across midnight.
PreTimeStr(s) ==
    LET t == strptime(s)
        m == (t.hour * 60 + t.minute - PreviewMinutes) % (24 * 60)
    IN  strftime(m \div 60, m % 60)

----------------------------------------------------------------------------
(* Dicts, the settings store and the inbound updates *)

EmptyDict == <<>>
Has(d, k) == k \in DOMAIN d
Put(d, k, v) == [x \in (DOMAIN d) \cup {k} |-> IF x = k THEN v ELSE d[x]]

\* f"{lat},{lon}": the two numbers, in this order, with a comma between.
AddressOf(lat, lon) == <<lat, ",", lon>>

\* save_settings: json.dump of the whole dict over the file.
save_settings(settings) == Some(settings)

\* load_settings: the file's dict, or {} when there is no file.
load_settings(file) == IF file # None THEN file[1] ELSE EmptyDict

\* Conversation states.  ConversationHandler.END leaves no state for the
\* chat; "Idle", "Complete" and "Cancelled" are that same absence, told
\* apart by how the previous run ended.
HOME == "HOME"
WORK == "WORK"
DEPART_HOME == "DEPART_HOME"
DEPART_WORK == "DEPART_WORK"
Awaiting == {HOME, WORK, DEPART_HOME, DEPART_WORK}
Ended == {"Idle", "Complete", "Cancelled"}

Locs == {[latitude |-> 1, longitude |-> 2], [latitude |-> 3, longitude |-> 4]}

T_0800 == <<"0", "8", ":", "0", "0">>
T_0_10 == <<"0", ":", "1", "0">>
T_8_5 == <<"8", ":", "5">>
T_2400 == <<"2", "4", ":", "0", "0">>
T_0860 == <<"0", "8", ":", "6", "0">>
T_start == <<"/", "s", "t", "a", "r", "t">>
T_cancel == <<"/", "c", "a", "n", "c", "e", "l">>
T_help == <<"/", "h", "e", "l", "p">>

\* The messages of a chat: location messages, text messages, and one with
\* neither (a photo).
UpdatesOf(locs, texts) ==
    {[location |-> Some(l), text |-> None, chat_id |-> ChatId] : l \in locs}
    \cup {[location |-> None, text |-> Some(t), chat_id |-> ChatId] : t \in texts}
    \cup {[location |-> None, text |-> None, chat_id |-> ChatId]}

\* The updates of Spec.
Updates == UpdatesOf(Locs, {T_0_10, T_2400, T_start, T_cancel, T_help})

Filters_location(u) == u.location # None
Filters_text(u) == u.text # None
Filters_command(u) == u.text # None /\ Len(u.text[1]) > 0 /\ u.text[1][1] = "/"
IsCommand(u, t) == u.text = Some(t)

\* Route with the entry point tried only before the first conversation.
Route_entry_once(c, u) ==
    IF c = "Idle" THEN (IF IsCommand(u, T_start) THEN "start" ELSE "none")
    ELSE IF c = HOME /\ Filters_location(u) THEN "home_location"
    ELSE IF c = WORK /\ Filters_location(u) THEN "work_location"
    ELSE IF c = DEPART_HOME /\ Filters_text(u) /\ ~Filters_command(u) THEN "depart_home_time"
    ELSE IF c = DEPART_WORK /\ Filters_text(u) /\ ~Filters_command(u) THEN "depart_work_time"
    ELSE IF IsCommand(u, T_cancel) THEN "cancel"
    ELSE "none"

\* ConversationHandler (main): the handler an update is routed to.  With no
\* conversation under way only the entry point is tried; in a state, that
\* state's handler and then the fallbacks; "none" when nothing matches.
Route(c, u) ==
    IF c \in Ended THEN (IF IsCommand(u, T_start) THEN "start" ELSE "none")
    ELSE IF c = HOME /\ Filters_location(u) THEN "home_location"
    ELSE IF c = WORK /\ Filters_location(u) THEN "work_location"
    ELSE IF c = DEPART_HOME /\ Filters_text(u) /\ ~Filters_command(u) THEN "depart_home_time"
    ELSE IF c = DEPART_WORK /\ Filters_text(u) /\ ~Filters_command(u) THEN "depart_work_time"
    ELSE IF IsCommand(u, T_cancel) THEN "cancel"
    ELSE "none"

----------------------------------------------------------------------------
(* schedule_notifications *)

JobIds == {"home_departure", "home_pre_departure", "work_departure", "work_pre_departure"}

DateOf(t) == t \div SecondsPerDay
\* datetime.combine(date, time): the time has no seconds.
Combine(date, hour, minute) == date * SecondsPerDay + (hour * 60 + minute) * SecondsPerMinute

\* lines 101-102 left out.
RollForward_never(scheduled_time, t) == scheduled_time

\* line 101 with <= for <.
RollForward_le(scheduled_time, t) ==
    IF scheduled_time <= t THEN scheduled_time + SecondsPerDay ELSE scheduled_time

\* lines 101-102: a time that has already passed today moves to tomorrow.
RollForward(scheduled_time, t) ==
    IF scheduled_time < t THEN scheduled_time + SecondsPerDay ELSE scheduled_time

\* add_job: the job store with the job added, or unchanged on a ValueError.
add_job(jobs, dept_time_str, job_name, t) ==
    LET dept_time == strptime(dept_time_str)
    IN  IF ~dept_time.ok THEN jobs
        ELSE Put(jobs, job_name,
                 RollForward(Combine(DateOf(t), dept_time.hour, dept_time.minute), t))

\* The preview job placed 30 minutes before the departure job's run date.
HomeJobs_from_departure(jobs, settings, t) ==
    IF Has(settings, "depart_home")
    THEN LET with == add_job(jobs, settings["depart_home"], "home_departure", t)
         IN  Put(with, "home_pre_departure",
                 with["home_departure"] - PreviewMinutes * SecondsPerMinute)
    ELSE jobs

HomeJobs(jobs, settings, t) ==
    IF Has(settings, "depart_home")
    THEN add_job(add_job(jobs, settings["depart_home"], "home_departure", t),
                 PreTimeStr(settings["depart_home"]), "home_pre_departure", t)
    ELSE jobs

\* line 174 asking for another key.
WorkJobs_wrong_key(jobs, settings, t) ==
    IF Has(settings, "depart_work_time")
    THEN add_job(add_job(jobs, settings["depart_work"], "work_departure", t),
                 PreTimeStr(settings["depart_work"]), "work_pre_departure", t)
    ELSE jobs

WorkJobs(jobs, settings, t) ==
    IF Has(settings, "depart_work")
    THEN add_job(add_job(jobs, settings["depart_work"], "work_departure", t),
                 PreTimeStr(settings["depart_work"]), "work_pre_departure", t)
    ELSE jobs

\* The job store of the BackgroundScheduler that one call creates and starts.
schedule_notifications(settings, t) == WorkJobs(HomeJobs(EmptyDict, settings, t), settings, t)

----------------------------------------------------------------------------
(* The external clients *)

\* One response of the Distance Matrix service to one requests.get:
\* "ok" (status OK, element status OK, duration_in_traffic of `seconds`),
\* "status" (top-level status not OK), "element" (element status not OK),
\* "exc" (timeout, connection error, a body that is no JSON, a missing key).
TravelResponses ==
    {[kind |-> "ok", seconds |-> 59], [kind |-> "ok", seconds |-> 1500],
     [kind |-> "status", seconds |-> 0], [kind |-> "element", seconds |-> 0],
     [kind |-> "exc", seconds |-> 0]}

D_clear == <<"c", "l", "e", "a", "r">>
D_Rain == <<"R", "a", "i", "n">>
D_none == <<>>

\* One response of the weather service: "ok" (status 200 with the fields
\* read), "status" (another status code), "exc".
WeatherResponses ==
    {[kind |-> "ok", temp |-> 0, humidity |-> 40, desc |-> D_clear],
     [kind |-> "ok", temp |-> 20, humidity |-> 90, desc |-> D_Rain],
     [kind |-> "status", temp |-> 0, humidity |-> 0, desc |-> D_none],
     [kind |-> "exc", temp |-> 0, humidity |-> 0, desc |-> D_none]}

\* The while condition with <= for <.
LoopContinues_le(attempt) == attempt <= Retries

\* The while condition of both clients (lines 43 and 66).
LoopContinues(attempt) == attempt < Retries

\* get_travel_time on a network answering resp[1], resp[2], ...: the value
\* returned (None or the minutes) and the number of requests made.
RECURSIVE TravelLoop(_, _, _)
TravelLoop(resp, attempt, calls) ==
    IF LoopContinues(attempt) /\ calls < Len(resp)
    THEN LET r == resp[calls + 1]
         IN  IF r.kind = "ok"
             THEN [value |-> Some(r.seconds \div 60), calls |-> calls + 1]
             ELSE TravelLoop(resp, attempt + 1, calls + 1)
    ELSE [value |-> None, calls |-> calls]

get_travel_time(resp) == TravelLoop(resp, 0, 0)

Upper == <<"A", "B", "C", "D", "E", "F", "G", "H", "I", "J", "K", "L", "M",
           "N", "O", "P", "Q", "R", "S", "T", "U", "V", "W", "X", "Y", "Z">>
Lower == <<"a", "b", "c", "d", "e", "f", "g", "h", "i", "j", "k", "l", "m",
           "n", "o", "p", "q", "r", "s", "t", "u", "v", "w", "x", "y", "z">>
lower(s) ==
    [i \in 1..Len(s) |->
        IF \E j \in 1..26 : Upper[j] = s[i]
        THEN Lower[CHOOSE j \in 1..26 : Upper[j] = s[i]]
        ELSE s[i]]

\* needle in hay
Contains(hay, needle) ==
    \E i \in 0..(Len(hay) - Len(needle)) :
        \A j \in 1..Len(needle) : hay[i + j] = needle[j]

\* line 53 without lower().
chance_of_rain_as_written(weather_desc) ==
    IF Contains(weather_desc, <<"r", "a", "i", "n">>) THEN 100 ELSE 0

\* line 53
chance_of_rain(weather_desc) ==
    IF Contains(lower(weather_desc), <<"r", "a", "i", "n">>) THEN 100 ELSE 0

Unable == <<"Unable to fetch weather data">>

\* get_weather: the tuple returned (temperature, humidity, chance_of_rain,
\* weather_desc; the first three None after the last failed attempt) and
\* the number of requests made.
RECURSIVE WeatherLoop(_, _, _)
WeatherLoop(resp, attempt, calls) ==
    IF LoopContinues(attempt) /\ calls < Len(resp)
    THEN LET r == resp[calls + 1]
         IN  IF r.kind = "ok"
             THEN [value |-> <<Some(r.temp), Some(r.humidity),
                               Some(chance_of_rain(r.desc)), r.desc>>,
                   calls |-> calls + 1]
             ELSE WeatherLoop(resp, attempt + 1, calls + 1)
    ELSE [value |-> <<None, None, None, Unable>>, calls |-> calls]

get_weather(resp) == WeatherLoop(resp, 0, 0)

----------------------------------------------------------------------------
(* The conversation handlers.  Each states what it does to the settings,   *)
(* the file, the reply, the conversation state and the schedulers.         *)

\* start returning the wrong state.
start_returns_work(update) ==
    /\ reply' = "Welcome! Please share your Home location"
    /\ conv' = WORK
    /\ UNCHANGED <<user_settings, disk, schedulers>>

start(update) ==
    /\ reply' = "Welcome! Please share your Home location"
    /\ conv' = HOME
    /\ UNCHANGED <<user_settings, disk, schedulers>>

home_location(update) ==
    IF update.location # None
    THEN LET home_loc == update.location[1]
         IN  /\ user_settings' =
                    Put(Put(Put(Put(user_settings,
                        "home_lat", home_loc.latitude),
                        "home_lon", home_loc.longitude),
                        "home_address", AddressOf(home_loc.latitude, home_loc.longitude)),
                        "chat_id", update.chat_id)
             /\ reply' = "Home location saved."
             /\ disk' = save_settings(user_settings')
             /\ conv' = WORK
             /\ UNCHANGED schedulers
    ELSE /\ reply' = "Please share your location using the Telegram location feature."
         /\ conv' = HOME
         /\ UNCHANGED <<user_settings, disk, schedulers>>

\* work_location without line 212.
work_location_no_address(update) ==
    IF update.location # None
    THEN LET work_loc == update.location[1]
         IN  /\ user_settings' =
                    Put(Put(user_settings,
                        "work_lat", work_loc.latitude),
                        "work_lon", work_loc.longitude)
             /\ reply' = "Work location saved."
             /\ disk' = save_settings(user_settings')
             /\ conv' = DEPART_HOME
             /\ UNCHANGED schedulers
    ELSE /\ reply' = "Please share your location."
         /\ conv' = WORK
         /\ UNCHANGED <<user_settings, disk, schedulers>>

work_location(update) ==
    IF update.location # None
    THEN LET work_loc == update.location[1]
         IN  /\ user_settings' =
                    Put(Put(Put(user_settings,
                        "work_lat", work_loc.latitude),
                        "work_lon", work_loc.longitude),
                        "work_address", AddressOf(work_loc.latitude, work_loc.longitude))
             /\ reply' = "Work location saved."
             /\ disk' = save_settings(user_settings')
             /\ conv' = DEPART_HOME
             /\ UNCHANGED schedulers
    ELSE /\ reply' = "Please share your location."
         /\ conv' = WORK
         /\ UNCHANGED <<user_settings, disk, schedulers>>

\* depart_home_time calling save_settings() before the assignment.
depart_home_time_saves_first(update) ==
    LET time_text == update.text[1]
    IN  IF strptime(time_text).ok
        THEN /\ user_settings' = Put(user_settings, "depart_home", time_text)
             /\ reply' = "Home departure time saved."
             /\ disk' = save_settings(user_settings)
             /\ conv' = DEPART_WORK
             /\ UNCHANGED schedulers
        ELSE /\ reply' = "Invalid time format. Please send the time as HH:MM (e.g., 08:30)."
             /\ conv' = DEPART_HOME
             /\ UNCHANGED <<user_settings, disk, schedulers>>

depart_home_time(update) ==
    LET time_text == update.text[1]
    IN  IF strptime(time_text).ok
        THEN /\ user_settings' = Put(user_settings, "depart_home", time_text)
             /\ reply' = "Home departure time saved."
             /\ disk' = save_settings(user_settings')
             /\ conv' = DEPART_WORK
             /\ UNCHANGED schedulers
        ELSE /\ reply' = "Invalid time format. Please send the time as HH:MM (e.g., 08:30)."
             /\ conv' = DEPART_HOME
             /\ UNCHANGED <<user_settings, disk, schedulers>>

depart_work_time(update) ==
    LET time_text == update.text[1]
    IN  IF strptime(time_text).ok
        THEN /\ user_settings' = Put(user_settings, "depart_work", time_text)
             /\ reply' = "Work departure time saved!"
             /\ disk' = save_settings(user_settings')
             /\ schedulers' = Append(schedulers, schedule_notifications(user_settings', now))
             /\ conv' = "Complete"
        ELSE /\ reply' = "Invalid time format. Please send the time as HH:MM (e.g., 18:00)."
             /\ conv' = DEPART_WORK
             /\ UNCHANGED <<user_settings, disk, schedulers>>

\* cancel shutting the schedulers down.
cancel_drops_jobs(update) ==
    /\ reply' = "Setup cancelled."
    /\ conv' = "Cancelled"
    /\ schedulers' = <<>>
    /\ UNCHANGED <<user_settings, disk>>

cancel(update) ==
    /\ reply' = "Setup cancelled."
    /\ conv' = "Cancelled"
    /\ UNCHANGED <<user_settings, disk, schedulers>>

----------------------------------------------------------------------------
(* The job bodies *)

\* The jobs waiting in the job stores: <<scheduler, id>>.
PendingJobs == {j \in (1..Len(schedulers)) \X JobIds : j[2] \in DOMAIN schedulers[j[1]]}
RunDate(j) == schedulers[j[1]][j[2]]
Due(j) == RunDate(j) <= now

IsPreview(id) == id \in {"home_pre_departure", "work_pre_departure"}
FromHome(id) == id \in {"home_departure", "home_pre_departure"}

Unknown == <<"u", "n", "k", "n", "o", "w", "n">>
NoText == <<>>

\* datetime.strftime("%H:%M") of the instant t
ClockLabel(t) ==
    LET m == (t % SecondsPerDay) \div SecondsPerMinute
    IN  strftime(m \div 60, m % 60)

\* lines 111 and 142: "if minutes" is false for None and for 0.
arrival_time(minutes, t) ==
    IF minutes # None /\ minutes[1] # 0
    THEN ClockLabel(t + minutes[1] * SecondsPerMinute)
    ELSE Unknown

\* The reminder each job function appends when weather[2] > 0 (lines 117,
\* 132, 148, 162), as the pieces of text added to the message.
Tip(id) ==
    CASE id = "home_departure" -> <<" ", "Tip: Wear a waterproof jacket/umbrella.">>
      [] id = "home_pre_departure" -> <<"\n", "Remember to bring waterproof gear.">>
      [] id = "work_departure" -> <<" ", "Tip: Wear waterproof clothing.">>
      [] id = "work_pre_departure" -> <<"\n", "Remember your waterproof gear.">>

\* The else branch of "if weather[0] is not None" (lines 119, 134, 150, 164).
Fallback(id) ==
    IF IsPreview(id) THEN <<"\n", "Weather data unavailable.">>
                     ELSE <<"Weather data unavailable.">>

\* The weather clause without the fallback branch.
WeatherClause_no_fallback(id, weather) ==
    IF weather[1] # None
    THEN <<"Weather: {}C, {}, Humidity: {}%, Chance of rain: {}%.">>
         \o (IF weather[3][1] > 0 THEN Tip(id) ELSE <<>>)
    ELSE <<>>

\* What a job function appends to the message after the travel sentence,
\* piece by piece; the {} are filled from the weather tuple.
WeatherClause(id, weather) ==
    IF weather[1] # None
    THEN <<"Weather: {}C, {}, Humidity: {}%, Chance of rain: {}%.">>
         \o (IF weather[3][1] > 0 THEN Tip(id) ELSE <<>>)
    ELSE Fallback(id)

\* The text a job function composes, by its parts: the template (one per
\* job function), the values put into it, the weather tuple (None when
\* weather[0] is None), the clause appended after the travel sentence and
\* whether the waterproof reminder is in it; chat_id is where the message
\* is sent.
JobMessage(id, settings, t, minutes, weather) ==
    [chat_id |-> settings["chat_id"],
     template |-> id,
     minutes |-> minutes,
     arrival |-> IF IsPreview(id) THEN NoText ELSE arrival_time(minutes, t),
     label |-> IF IsPreview(id)
               THEN (IF FromHome(id) THEN settings["depart_home"] ELSE settings["depart_work"])
               ELSE NoText,
     weather |-> IF weather[1] # None THEN Some(weather) ELSE None,
     clause |-> WeatherClause(id, weather),
     tip |-> weather[1] # None /\ weather[3][1] > 0]

----------------------------------------------------------------------------
(* Actions *)

Others == <<now, sent, net, ret>>

StartStep(U) ==
    \E u \in U : Route(conv, u) = "start" /\ start(u) /\ UNCHANGED Others

HomeLocationStep(U) ==
    \E u \in U : Route(conv, u) = "home_location" /\ home_location(u) /\ UNCHANGED Others

WorkLocationStep(U) ==
    \E u \in U : Route(conv, u) = "work_location" /\ work_location(u) /\ UNCHANGED Others

DepartHomeTimeStep(U) ==
    \E u \in U : Route(conv, u) = "depart_home_time" /\ depart_home_time(u) /\ UNCHANGED Others

\* The model completes no further setup once MaxSchedulers schedulers run.
DepartWorkTimeStep(U) ==
    \E u \in U :
        /\ Route(conv, u) = "depart_work_time"
        /\ strptime(u.text[1]).ok => Len(schedulers) < MaxSchedulers
        /\ depart_work_time(u)
        /\ UNCHANGED Others

CancelStep(U) ==
    \E u \in U : Route(conv, u) = "cancel" /\ cancel(u) /\ UNCHANGED Others

\* An update that no handler of the conversation takes: nothing runs.
UnhandledStep(U) ==
    \E u \in U :
        /\ Route(conv, u) = "none"
        /\ reply' = "none"
        /\ UNCHANGED <<user_settings, disk, conv, schedulers>>
        /\ UNCHANGED Others

OnStart == StartStep(Updates)
OnHomeLocation == HomeLocationStep(Updates)
OnWorkLocation == WorkLocationStep(Updates)
OnDepartHomeTime == DepartHomeTimeStep(Updates)
OnDepartWorkTime == DepartWorkTimeStep(Updates)
OnCancel == CancelStep(Updates)
Unhandled == UnhandledStep(Updates)

Remove(d, k) == [x \in (DOMAIN d) \ {k} |-> d[x]]

\* The responses the services give to the client calls of the job bodies of
\* Spec: the travel service answers the second request, the weather service
\* none.
Exc == [kind |-> "exc", seconds |-> 0]
WExc == [kind |-> "exc", temp |-> 0, humidity |-> 0, desc |-> D_none]
TravelCases ==
    {<<[kind |-> "status", seconds |-> 0], [kind |-> "ok", seconds |-> 1500], Exc, Exc>>}
WeatherCases == {<<WExc, WExc, WExc, WExc>>}

\* A scheduler runs a job whose run date has come: the 'date' job leaves the
\* job store and the job function runs: get_travel_time, get_weather, the
\* message, send_message (which delivers the message or raises).
FireStep(travel, weather) ==
    \E j \in PendingJobs :
        /\ Due(j)
        /\ schedulers' = [schedulers EXCEPT ![j[1]] = Remove(@, j[2])]
        /\ \E tr \in travel, wr \in weather, delivered \in BOOLEAN :
              sent' = Some([message |-> JobMessage(j[2], user_settings, now,
                                                   get_travel_time(tr).value,
                                                   get_weather(wr).value),
                            delivered |-> delivered])
        /\ UNCHANGED <<user_settings, disk, conv, reply, now, net, ret>>

Fire == FireStep(TravelCases, WeatherCases)

\* Times of day at which the clock is looked at.
ClockSamples == {10 * 60, 10 * 60 + 30}
Horizon == (MaxDay + 1) * SecondsPerDay - 1
Instants ==
    {d * SecondsPerDay + s : d \in 0..MaxDay, s \in ClockSamples}
    \cup {RunDate(j) : j \in PendingJobs}

\* Time passes, up to the next run date: a scheduler wakes at the run date
\* of its next job.
Tick ==
    /\ \A j \in PendingJobs : ~Due(j)
    /\ \E t \in Instants :
          /\ now < t
          /\ t <= Horizon
          /\ \A j \in PendingJobs : t <= RunDate(j)
          /\ now' = t
    /\ UNCHANGED <<user_settings, disk, conv, reply, schedulers, sent, net, ret>>

\* main() calling schedule_notifications after load_settings().
Restart_schedules ==
    /\ user_settings' = load_settings(disk)
    /\ conv' = "Idle"
    /\ reply' = "none"
    /\ schedulers' = <<schedule_notifications(user_settings', now)>>
    /\ UNCHANGED <<disk, now, sent, net, ret>>

\* The process ends and main() runs again: the settings are loaded from the
\* file; conversations and schedulers are gone.
Restart ==
    /\ user_settings' = load_settings(disk)
    /\ conv' = "Idle"
    /\ reply' = "none"
    /\ schedulers' = <<>>
    /\ UNCHANGED <<disk, now, sent, net, ret>>

Init ==
    /\ disk = None
    /\ user_settings = load_settings(disk)
    /\ conv = "Idle"
    /\ reply = "none"
    /\ now = 0
    /\ schedulers = <<>>
    /\ sent = None
    /\ net = <<>>
    /\ ret = None

Next ==
    \/ OnStart
    \/ OnHomeLocation
    \/ OnWorkLocation
    \/ OnDepartHomeTime
    \/ OnDepartWorkTime
    \/ OnCancel
    \/ Unhandled
    \/ Fire
    \/ Tick
    \/ Restart

Spec == Init /\ [][Next]_vars

----------------------------------------------------------------------------
(* ScheduleSpec: the last setup step, and with it schedule_notifications,  *)
(* for many departure times and many instants.  It starts where the        *)
(* conversation waits for the departure time from Work.                    *)

T_0000 == <<"0", "0", ":", "0", "0">>
T_0029 == <<"0", "0", ":", "2", "9">>
T_0030 == <<"0", "0", ":", "3", "0">>
T_2359 == <<"2", "3", ":", "5", "9">>

ScheduleTimeTexts == {T_0000, T_0_10, T_0029, T_0030, T_0800, T_8_5, T_2359}
ScheduleUpdates == UpdatesOf({}, ScheduleTimeTexts \cup {T_2400, T_0860})

\* Seconds after midnight.
ScheduleClock ==
    {0, 10 * 60, 10 * 60 + 30, 29 * 60 + 59, 30 * 60, (7 * 60 + 30) * 60,
     (7 * 60 + 45) * 60, 8 * 60 * 60, 8 * 60 * 60 + 30, 8 * 60 * 60 + 59,
     (8 * 60 + 30) * 60, (23 * 60 + 40) * 60, (23 * 60 + 59) * 60,
     (23 * 60 + 59) * 60 + 59}

AfterHomeAndWork ==
    Put(Put(Put(Put(Put(Put(Put(EmptyDict,
        "home_lat", 1), "home_lon", 2), "home_address", AddressOf(1, 2)),
        "chat_id", ChatId),
        "work_lat", 3), "work_lon", 4), "work_address", AddressOf(3, 4))

ScheduleInit ==
    /\ user_settings \in {Put(AfterHomeAndWork, "depart_home", t) : t \in ScheduleTimeTexts}
    /\ disk = save_settings(user_settings)
    /\ conv = DEPART_WORK
    /\ reply = "Home departure time saved."
    /\ now \in {d * SecondsPerDay + s : d \in 0..MaxDay, s \in ScheduleClock}
    /\ schedulers = <<>>
    /\ sent = None
    /\ net = <<>>
    /\ ret = None

ScheduleNext == DepartWorkTimeStep(ScheduleUpdates)

ScheduleSpec == ScheduleInit /\ [][ScheduleNext]_vars

----------------------------------------------------------------------------
(* ClientSpec: one call of get_travel_time or of get_weather against every *)
(* sequence of responses of the service.                                   *)

\* One response more than a correct client can ask for.
NetLen == Retries + 1

ClientInit ==
    /\ net \in {[client |-> "travel", resp |-> r] : r \in [1..NetLen -> TravelResponses]}
          \cup {[client |-> "weather", resp |-> r] : r \in [1..NetLen -> WeatherResponses]}
    /\ ret = None
    /\ disk = None
    /\ user_settings = load_settings(disk)
    /\ conv = "Idle"
    /\ reply = "none"
    /\ now = 0
    /\ schedulers = <<>>
    /\ sent = None

CallTravel ==
    /\ net.client = "travel"
    /\ ret = None
    /\ ret' = Some(get_travel_time(net.resp))
    /\ UNCHANGED <<user_settings, disk, conv, reply, now, schedulers, sent, net>>

CallWeather ==
    /\ net.client = "weather"
    /\ ret = None
    /\ ret' = Some(get_weather(net.resp))
    /\ UNCHANGED <<user_settings, disk, conv, reply, now, schedulers, sent, net>>

ClientNext == CallTravel \/ CallWeather

ClientSpec == ClientInit /\ [][ClientNext]_vars

----------------------------------------------------------------------------
(* JobSpec: the four jobs of one scheduler run against every combination   *)
(* of answers of the two services.  It starts right after the last setup   *)
(* step; net holds what the services answer to the requests of a job.      *)

D_light_rain == <<"l", "i", "g", "h", "t", " ", "r", "a", "i", "n">>
D_drizzle == <<"d", "r", "i", "z", "z", "l", "e">>

WStatus == [kind |-> "status", temp |-> 0, humidity |-> 0, desc |-> D_none]

\* The travel service: under a minute at once; 25 minutes at once; 25
\* minutes at the second request; three failures.
JobTravelCases ==
    {<<[kind |-> "ok", seconds |-> 59], Exc, Exc, Exc>>,
     <<[kind |-> "ok", seconds |-> 1500], Exc, Exc, Exc>>,
     <<[kind |-> "status", seconds |-> 0], [kind |-> "ok", seconds |-> 1500], Exc, Exc>>,
     <<Exc, [kind |-> "element", seconds |-> 0], [kind |-> "status", seconds |-> 0],
       [kind |-> "ok", seconds |-> 1500]>>}

\* The weather service: 0 degrees and clear; 20 degrees and "Rain";
\* "light rain" at the third request; drizzle; three failures.
JobWeatherCases ==
    {<<[kind |-> "ok", temp |-> 0, humidity |-> 40, desc |-> D_clear], WExc, WExc, WExc>>,
     <<[kind |-> "ok", temp |-> 20, humidity |-> 90, desc |-> D_Rain], WExc, WExc, WExc>>,
     <<WExc, WStatus,
       [kind |-> "ok", temp |-> 5, humidity |-> 80, desc |-> D_light_rain], WExc>>,
     <<[kind |-> "ok", temp |-> 9, humidity |-> 70, desc |-> D_drizzle], WExc, WExc, WExc>>,
     <<WStatus, WExc, WStatus,
       [kind |-> "ok", temp |-> 20, humidity |-> 90, desc |-> D_Rain]>>}

\* The record after a setup with Home 1,2, Work 3,4 and the departure times
\* 08:00 and 23:59.
Scheduled ==
    Put(Put(AfterHomeAndWork, "depart_home", T_0800), "depart_work", T_2359)

\* The instants at which the setup was completed.
JobClock == {0, (7 * 60 + 45) * 60}

JobInit ==
    /\ user_settings = Scheduled
    /\ disk = save_settings(user_settings)
    /\ conv = "Complete"
    /\ reply = "Work departure time saved!"
    /\ now \in JobClock
    /\ schedulers = <<schedule_notifications(user_settings, now)>>
    /\ sent = None
    /\ net \in {[travel |-> tr, weather |-> wr] : tr \in JobTravelCases, wr \in JobWeatherCases}
    /\ ret = None

JobFire == FireStep({net.travel}, {net.weather})

JobNext == JobFire \/ Tick

JobSpec == JobInit /\ [][JobNext]_vars

----------------------------------------------------------------------------
(* RerunSpec: the setup is run again while the jobs of a scheduler wait or *)
(* run.  It starts right after a setup that stored the record Scheduled    *)
(* and started the first scheduler from it.  A job function runs in a      *)
(* thread of its scheduler, statement by statement, beside the handlers;   *)
(* net holds the frame of the running job function.                        *)

NoFrame ==
    [pc |-> "idle", sched |-> 0, id |-> "", t |-> 0, origin |-> <<>>,
     destination |-> <<>>, minutes |-> None, coord |-> <<>>, weather |-> <<>>]

\* Lines 109-111 (124-125, 140-142, 154-155): the job leaves the job store,
\* the job function reads the two addresses and calls get_travel_time.
JobTravel ==
    /\ net.pc = "idle"
    /\ \E j \in PendingJobs :
          /\ Due(j)
          /\ schedulers' = [schedulers EXCEPT ![j[1]] = Remove(@, j[2])]
          /\ \E tr \in TravelCases :
                net' = [NoFrame EXCEPT
                          !.pc = "weather",
                          !.sched = j[1],
                          !.id = j[2],
                          !.t = now,
                          !.origin = IF FromHome(j[2]) THEN user_settings["home_address"]
                                                       ELSE user_settings["work_address"],
                          !.destination = IF FromHome(j[2])
                                          THEN user_settings["work_address"]
                                          ELSE user_settings["home_address"],
                          !.minutes = get_travel_time(tr).value]
    /\ UNCHANGED <<user_settings, disk, conv, reply, now, sent, ret>>

\* Line 112 (126, 143, 156): the coordinates are read and get_weather is
\* called.
JobWeather ==
    /\ net.pc = "weather"
    /\ \E wr \in WeatherCases :
          net' = [net EXCEPT
                    !.pc = "send",
                    !.coord = IF FromHome(net.id)
                              THEN <<user_settings["home_lat"], user_settings["home_lon"]>>
                              ELSE <<user_settings["work_lat"], user_settings["work_lon"]>>,
                    !.weather = get_weather(wr).value]
    /\ UNCHANGED <<user_settings, disk, conv, reply, now, schedulers, sent, ret>>

\* Lines 113-120 (127-135, 144-151, 157-165): the message is composed, with
\* the label read from the record, and sent to the chat_id of the record.
JobSend ==
    /\ net.pc = "send"
    /\ \E delivered \in BOOLEAN :
          sent' = Some([message |-> JobMessage(net.id, user_settings, net.t,
                                               net.minutes, net.weather),
                        delivered |-> delivered])
    /\ net' = NoFrame
    /\ UNCHANGED <<user_settings, disk, conv, reply, now, schedulers, ret>>

RerunInit ==
    /\ user_settings = Scheduled
    /\ disk = save_settings(user_settings)
    /\ conv = "Complete"
    /\ reply = "Work departure time saved!"
    /\ now = 0
    /\ schedulers = <<schedule_notifications(user_settings, now)>>
    /\ sent = None
    /\ net = NoFrame
    /\ ret = None

RerunNext ==
    \/ OnStart
    \/ OnHomeLocation
    \/ OnWorkLocation
    \/ OnDepartHomeTime
    \/ OnDepartWorkTime
    \/ OnCancel
    \/ Unhandled
    \/ JobTravel
    \/ JobWeather
    \/ JobSend
    \/ Tick

RerunSpec == RerunInit /\ [][RerunNext]_vars

----------------------------------------------------------------------------
(* WriteFailSpec: Spec with a settings file that can refuse to be written. *)

\* The record after the assignments of the handler of state c for the
\* update u (lines 195-198, 210-212, 225, 238).
Assigned(settings, c, u) ==
    CASE c = HOME ->
             Put(Put(Put(Put(settings,
                 "home_lat", u.location[1].latitude),
                 "home_lon", u.location[1].longitude),
                 "home_address", AddressOf(u.location[1].latitude, u.location[1].longitude)),
                 "chat_id", u.chat_id)
      [] c = WORK ->
             Put(Put(Put(settings,
                 "work_lat", u.location[1].latitude),
                 "work_lon", u.location[1].longitude),
                 "work_address", AddressOf(u.location[1].latitude, u.location[1].longitude))
      [] c = DEPART_HOME -> Put(settings, "depart_home", u.text[1])
      [] c = DEPART_WORK -> Put(settings, "depart_work", u.text[1])

\* The reply_text before save_settings() (lines 199, 213, 226, 239).
SavedReply(c) ==
    CASE c = HOME -> "Home location saved."
      [] c = WORK -> "Work location saved."
      [] c = DEPART_HOME -> "Home departure time saved."
      [] c = DEPART_WORK -> "Work departure time saved!"

\* A handler whose save_settings() raises at open(SETTINGS_FILE, 'w'): the
\* file keeps its content, the assignments and the reply before the call
\* have happened, and what follows the call (schedule_notifications, the
\* return of the next state) has not: the conversation keeps its state.
SaveFailsStep(U) ==
    \E u \in U :
        /\ \/ Route(conv, u) \in {"home_location", "work_location"} /\ u.location # None
           \/ Route(conv, u) \in {"depart_home_time", "depart_work_time"}
              /\ strptime(u.text[1]).ok
        /\ user_settings' = Assigned(user_settings, conv, u)
        /\ reply' = SavedReply(conv)
        /\ UNCHANGED <<disk, conv, schedulers>>
        /\ UNCHANGED Others

SaveFails == SaveFailsStep(Updates)

WriteFailNext == Next \/ SaveFails

WriteFailSpec == Init /\ [][WriteFailNext]_vars

----------------------------------------------------------------------------
(* The claims *)

\* The step runs the job j: it is due and leaves its job store.
FiresJob(j) ==
    /\ Due(j)
    /\ Len(schedulers') = Len(schedulers)
    /\ schedulers' = [schedulers EXCEPT ![j[1]] = Remove(@, j[2])]

\* Some job store holds a job `id` with run date t.
Armed(stores, id, t) ==
    \E k \in 1..Len(stores) : id \in DOMAIN stores[k] /\ stores[k][id] = t

\* C1: after a job fires, whatever the services answered and whether or not
\* the message was delivered, its slot holds a job again, whose run date is
\* the run date that just fired plus 24 hours.
C1_RearmedAfterFiring ==
    [][\A j \in PendingJobs :
          FiresJob(j) => Armed(schedulers', j[2], RunDate(j) + 24 * 60 * 60)]_vars

\* C2: in every reachable state each of the four slots has at most one
\* pending job, over all schedulers.
C2_AtMostOnePendingPerSlot ==
    \A id \in JobIds :
        Cardinality({k \in 1..Len(schedulers) : id \in DOMAIN schedulers[k]}) <= 1

RecordKeys ==
    {"home_lat", "home_lon", "home_address", "work_lat", "work_lon", "work_address",
     "depart_home", "depart_work", "chat_id"}

\* C3: whenever a job is pending, the settings record holds the six data
\* fields and the notify target.
C3_CompleteRecordWhenPending ==
    PendingJobs # {} => RecordKeys \subseteq DOMAIN user_settings

\* C3 witness: jobs are pending while the setup is run again.
C3_Witness ==
    /\ PendingJobs # {}
    /\ conv = WORK
    /\ RecordKeys \subseteq DOMAIN user_settings

\* The step changes, in the settings record, the keys of K and no other, and
\* leaves the keys of K present.
WritesOnly(K) ==
    /\ DOMAIN user_settings' = (DOMAIN user_settings) \cup K
    /\ \A k \in (DOMAIN user_settings) \ K : user_settings'[k] = user_settings[k]

\* C4: the dialogue enters each state only from the state before it in
\* AwaitingHome, AwaitingWork, AwaitingDepartHome, AwaitingDepartWork,
\* Complete (AwaitingHome only from an ended run), the step into a state
\* writes the fields of the step just answered and no other, and a step
\* that leaves the state as it is writes nothing.
C4_OrderedSteps ==
    [][/\ (conv' = HOME /\ conv # HOME) =>
              (conv \in Ended /\ user_settings' = user_settings)
       /\ (conv' = WORK /\ conv # WORK) =>
              (conv = HOME /\ WritesOnly({"home_lat", "home_lon", "home_address", "chat_id"}))
       /\ (conv' = DEPART_HOME /\ conv # DEPART_HOME) =>
              (conv = WORK /\ WritesOnly({"work_lat", "work_lon", "work_address"}))
       /\ (conv' = DEPART_WORK /\ conv # DEPART_WORK) =>
              (conv = DEPART_HOME /\ WritesOnly({"depart_home"}))
       /\ (conv' = "Complete" /\ conv # "Complete") =>
              (conv = DEPART_WORK /\ WritesOnly({"depart_work"}))
       /\ conv' = conv => user_settings' = user_settings]_vars

\* C4 witness: a run that went through the four steps.
C4_Witness ==
    /\ conv = "Complete"
    /\ reply = "Work departure time saved!"
    /\ RecordKeys \subseteq DOMAIN user_settings

\* C5: a scheduler is created and started in exactly the steps that take
\* the dialogue from AwaitingDepartWork to Complete, and the new scheduler
\* holds a job for each of the four slots.
C5_RebuildOnlyOnLastStep ==
    [][/\ (Len(schedulers') = Len(schedulers) + 1) <=>
              (conv = DEPART_WORK /\ conv' = "Complete")
       /\ (Len(schedulers') = Len(schedulers) + 1) =>
              /\ DOMAIN schedulers'[Len(schedulers')] = JobIds
              /\ SubSeq(schedulers', 1, Len(schedulers)) = schedulers]_vars

\* C5 witness: a scheduler with its four jobs, right after the last step.
C5_Witness ==
    /\ conv = "Complete"
    /\ Len(schedulers) = 1
    /\ DOMAIN schedulers[1] = JobIds

\* The time of day a slot is to fire at, in seconds: the stored departure
\* time, for a preview 30 minutes earlier, around the clock.
StoredTod(id) ==
    LET text == IF FromHome(id) THEN user_settings["depart_home"]
                                ELSE user_settings["depart_work"]
        p == strptime(text)
    IN  (p.hour * 60 + p.minute) * 60
SlotTod(id) ==
    IF IsPreview(id) THEN (StoredTod(id) - 30 * 60) % (24 * 60 * 60) ELSE StoredTod(id)
\* Today's date combined with the slot's time of day.
FireAt(id) == (now \div (24 * 60 * 60)) * (24 * 60 * 60) + SlotTod(id)
Departures == {j \in PendingJobs : ~IsPreview(j[2])}
Previews == {j \in PendingJobs : IsPreview(j[2])}

\* C6 as stated: a departure job runs at fireAt + 24h if fireAt <= now, and
\* at fireAt otherwise.
C6_RollWhenNotAfterNow ==
    \A j \in Departures :
        /\ FireAt(j[2]) <= now => RunDate(j) = FireAt(j[2]) + 24 * 60 * 60
        /\ FireAt(j[2]) > now => RunDate(j) = FireAt(j[2])

\* C6 amended: a departure job runs at fireAt + 24h if fireAt < now, and at
\* fireAt otherwise (also when fireAt = now).
C6_RollWhenBeforeNow ==
    \A j \in Departures :
        /\ FireAt(j[2]) < now => RunDate(j) = FireAt(j[2]) + 24 * 60 * 60
        /\ FireAt(j[2]) >= now => RunDate(j) = FireAt(j[2])

\* C6 witness: departure 08:00 evaluated at 08:30 of day 0 runs at 08:00 of
\* day 1, and its preview at 07:30 of day 1.
C6_Witness ==
    /\ now = (8 * 60 + 30) * 60
    /\ Len(schedulers) = 1
    /\ user_settings["depart_home"] = T_0800
    /\ schedulers[1]["home_departure"] = 24 * 60 * 60 + 8 * 60 * 60
    /\ schedulers[1]["home_pre_departure"] = 24 * 60 * 60 + (7 * 60 + 30) * 60

\* C7 as stated: a departure time equal to the clock to the minute,
\* whatever the seconds, is scheduled for today.
C7_SameMinuteIsToday ==
    \A j \in Departures :
        (FireAt(j[2]) <= now /\ now < FireAt(j[2]) + 60) =>
            RunDate(j) \div (24 * 60 * 60) = now \div (24 * 60 * 60)

\* C7 amended: a departure time equal to the clock to the second is
\* scheduled for today, at once; with the clock later in that minute it is
\* scheduled for tomorrow.
C7_SameSecondIsToday ==
    \A j \in Departures :
        /\ FireAt(j[2]) = now => RunDate(j) = now
        /\ (FireAt(j[2]) < now /\ now < FireAt(j[2]) + 60) =>
               RunDate(j) = FireAt(j[2]) + 24 * 60 * 60

\* C7 witness: the departure time is the clock's time to the second.
C7_Witness ==
    \E j \in Departures : FireAt(j[2]) = now /\ RunDate(j) = now /\ now > 0

\* C8: a preview job runs at today's date combined with the stored
\* departure time minus 30 minutes around the clock, rolled by its own
\* comparison with now.
C8_PreviewRolledOnItsOwn ==
    \A j \in Previews :
        RunDate(j) = IF FireAt(j[2]) < now THEN FireAt(j[2]) + 24 * 60 * 60
                                           ELSE FireAt(j[2])

\* C8 witness: the Home preview is today and the Home departure tomorrow,
\* and the Work departure and preview are not 30 minutes apart.
C8_Witness ==
    /\ Len(schedulers) = 1
    /\ schedulers[1]["home_pre_departure"] \div (24 * 60 * 60) = now \div (24 * 60 * 60)
    /\ schedulers[1]["home_departure"] \div (24 * 60 * 60) = now \div (24 * 60 * 60) + 1
    /\ schedulers[1]["work_departure"] - schedulers[1]["work_pre_departure"] # 30 * 60

\* The step is the conversation's handling of the update u.
Handles(u) ==
    /\ \/ Route(conv, u) = "start" /\ start(u)
       \/ Route(conv, u) = "home_location" /\ home_location(u)
       \/ Route(conv, u) = "work_location" /\ work_location(u)
       \/ Route(conv, u) = "depart_home_time" /\ depart_home_time(u)
       \/ Route(conv, u) = "depart_work_time" /\ depart_work_time(u)
       \/ Route(conv, u) = "cancel" /\ cancel(u)
       \/ /\ Route(conv, u) = "none"
          /\ reply' = "none"
          /\ UNCHANGED <<user_settings, disk, conv, schedulers>>
    /\ UNCHANGED Others

\* A message that is not what the state waits for, and is not the cancel
\* command.
InvalidInput(c, u) ==
    /\ ~IsCommand(u, T_cancel)
    /\ \/ c \in {HOME, WORK} /\ u.location = None
       \/ c \in {DEPART_HOME, DEPART_WORK} /\ u.text # None /\ ~strptime(u.text[1]).ok
ValidTime(c, u) ==
    c \in {DEPART_HOME, DEPART_WORK} /\ u.text # None /\ strptime(u.text[1]).ok

CorrectivePrompts ==
    {"Please share your location using the Telegram location feature.",
     "Please share your location.",
     "Invalid time format. Please send the time as HH:MM (e.g., 08:30).",
     "Invalid time format. Please send the time as HH:MM (e.g., 18:00)."}

\* C9: on an invalid input in an awaiting state the dialogue stays in its
\* state, the record and the file are unchanged and a corrective prompt is
\* sent; on a valid HH:MM text the step succeeds and stores the text as
\* typed.
C9_InvalidInputReprompts ==
    [][\A u \in Updates :
          Handles(u) =>
              /\ InvalidInput(conv, u) =>
                     /\ conv' = conv
                     /\ user_settings' = user_settings
                     /\ disk' = disk
                     /\ reply' \in CorrectivePrompts
              /\ ValidTime(conv, u) =>
                     /\ conv' # conv
                     /\ user_settings'[IF conv = DEPART_HOME THEN "depart_home"
                                                             ELSE "depart_work"] = u.text[1]]_vars

\* C10: a client call makes at most 3 requests, returns the value of the
\* first successful response without asking again, and after 3 responses
\* that are failures returns the unavailable value.
C10_BoundedRetries ==
    ret # None =>
        LET r == ret[1]
            resp == net.resp
            oks == {i \in 1..3 : resp[i].kind = "ok"}
        IN  /\ r.calls <= 3
            /\ oks # {} =>
                   LET i == CHOOSE x \in oks : \A y \in oks : x <= y
                   IN  /\ r.calls = i
                       /\ net.client = "travel" => r.value = Some(resp[i].seconds \div 60)
                       /\ net.client = "weather" =>
                              /\ r.value[1] = Some(resp[i].temp)
                              /\ r.value[2] = Some(resp[i].humidity)
                              /\ r.value[3] # None
                              /\ r.value[4] = resp[i].desc
            /\ oks = {} =>
                   /\ r.calls = 3
                   /\ net.client = "travel" => r.value = None
                   /\ net.client = "weather" =>
                          r.value[1] = None /\ r.value[2] = None /\ r.value[3] = None

\* C10 witness: three failures of the three kinds, the fourth response would
\* be a success, and the call returned None after 3 requests.
C10_Witness ==
    /\ ret # None
    /\ net.client = "travel"
    /\ net.resp[1].kind = "exc"
    /\ net.resp[2].kind = "status"
    /\ net.resp[3].kind = "element"
    /\ net.resp[4].kind = "ok"
    /\ ret[1].calls = 3
    /\ ret[1].value = None

\* The service failed at each of the requests a client makes.
Unavailable(resp) == \A i \in 1..3 : resp[i].kind # "ok"

\* The pieces of text of a message clause.
Pieces(clause) == {clause[i] : i \in 1..Len(clause)}

\* C11: every firing of a job ends with one send_message, to the chat_id of
\* the record, of the message of that job, whatever the two services
\* answered (a travel time of 0, a temperature of 0, three failures); when
\* the weather service failed three times the message carries the wording
\* "Weather data unavailable.".
C11_EveryFiringSends ==
    [][\A j \in PendingJobs :
          FiresJob(j) =>
              /\ sent' # None
              /\ sent' # sent
              /\ sent'[1].message.template = j[2]
              /\ sent'[1].message.chat_id = user_settings["chat_id"]
              /\ Unavailable(net.weather) =>
                     "Weather data unavailable." \in Pieces(sent'[1].message.clause)]_vars

\* C11 witness: the travel service answered 59 seconds (0 minutes), the
\* weather service failed three times, and the Home preview was sent with
\* the fallback wording.
C11_Witness ==
    /\ sent # None
    /\ net.travel[1] = [kind |-> "ok", seconds |-> 59]
    /\ Unavailable(net.weather)
    /\ sent[1].message.template = "home_pre_departure"
    /\ sent[1].message.minutes = Some(0)
    /\ sent[1].message.clause = <<"\n", "Weather data unavailable.">>

\* The record read through the keys of the leg a job is for.
Leg(settings, id) ==
    IF FromHome(id)
    THEN [origin |-> settings["home_address"], destination |-> settings["work_address"],
          coord |-> <<settings["home_lat"], settings["home_lon"]>>,
          label |-> settings["depart_home"]]
    ELSE [origin |-> settings["work_address"], destination |-> settings["home_address"],
          coord |-> <<settings["work_lat"], settings["work_lon"]>>,
          label |-> settings["depart_work"]]

\* C12: a job of the first scheduler, which was built from the record
\* Scheduled, asks for the travel time between the addresses of Scheduled
\* and for the weather at the coordinates of Scheduled, names the departure
\* time of Scheduled and sends to the chat_id of Scheduled, whatever the
\* setup has written to the record since it was scheduled or since it
\* began to run.
C12_UsesScheduleTimeRecord ==
    [][/\ (net'.pc # "idle" /\ net'.sched = 1) =>
              /\ net'.origin = Leg(Scheduled, net'.id).origin
              /\ net'.destination = Leg(Scheduled, net'.id).destination
              /\ net'.pc = "send" => net'.coord = Leg(Scheduled, net'.id).coord
       /\ (net.pc = "send" /\ net.sched = 1 /\ net'.pc = "idle") =>
              /\ sent'[1].message.chat_id = Scheduled["chat_id"]
              /\ IsPreview(net.id) =>
                     sent'[1].message.label = Leg(Scheduled, net.id).label]_vars

SavedReplies ==
    {"Home location saved.", "Work location saved.", "Home departure time saved.",
     "Work departure time saved!"}

\* C13: a setup step whose write to the settings file fails leaves the
\* dialogue in its state, does not tell the user that the value was saved,
\* and leaves no field in the in-memory record that the file does not hold
\* with the same value.
C13_FailedWriteNotComplete ==
    [][SaveFails =>
          /\ conv' = conv
          /\ reply' \notin SavedReplies
          /\ \A k \in DOMAIN user_settings' :
                 /\ k \in DOMAIN load_settings(disk')
                 /\ load_settings(disk')[k] = user_settings'[k]]_vars

\* C14: /cancel in any of the four awaiting states ends the dialogue in
\* Cancelled and leaves the record, the file and every scheduler with its
\* pending jobs as they were; no scheduler is created.
C14_CancelChangesNothingElse ==
    [][\A u \in Updates :
          (conv \in Awaiting /\ IsCommand(u, T_cancel) /\ Handles(u)) =>
              /\ conv' = "Cancelled"
              /\ reply' = "Setup cancelled."
              /\ user_settings' = user_settings
              /\ disk' = disk
              /\ schedulers' = schedulers]_vars

\* C14 witness: a second setup run was cancelled after its Home step, with
\* jobs of the first run pending.
C14_Witness ==
    /\ conv = "Cancelled"
    /\ reply = "Setup cancelled."
    /\ PendingJobs # {}
    /\ user_settings["home_address"] # user_settings["work_address"]

\* C15: after a run ended in Complete or Cancelled, /start takes the
\* dialogue to AwaitingHome and leaves the record, the file and the
\* schedulers as they are, also when the record is complete; each later
\* step overwrites the fields of its own group and keeps the others.
C15_StartReentersAtHome ==
    [][\A u \in Updates :
          Handles(u) =>
              /\ (conv \in {"Complete", "Cancelled"} /\ IsCommand(u, T_start)) =>
                     /\ conv' = HOME
                     /\ user_settings' = user_settings
                     /\ disk' = disk
                     /\ schedulers' = schedulers
              /\ (RecordKeys \subseteq DOMAIN user_settings /\ conv' # conv) =>
                     /\ conv = HOME /\ conv' = WORK =>
                            WritesOnly({"home_lat", "home_lon", "home_address", "chat_id"})
                     /\ conv = WORK /\ conv' = DEPART_HOME =>
                            WritesOnly({"work_lat", "work_lon", "work_address"})
                     /\ conv = DEPART_HOME /\ conv' = DEPART_WORK =>
                            WritesOnly({"depart_home"})
                     /\ conv = DEPART_WORK /\ conv' = "Complete" =>
                            WritesOnly({"depart_work"})]_vars

\* C15 witness: with a complete record and pending jobs, a new run has
\* been started and waits for the Home location.
C15_Witness ==
    /\ conv = HOME
    /\ reply = "Welcome! Please share your Home location"
    /\ RecordKeys \subseteq DOMAIN user_settings
    /\ PendingJobs # {}

\* The first answer of the weather service that is a success, among the
\* three that a call can get.
FirstOk(resp) ==
    resp[CHOOSE i \in 1..3 : resp[i].kind = "ok" /\ \A k \in 1..(i - 1) : resp[k].kind # "ok"]

\* The descriptions that mention rain.
MentionsRain(desc) == desc \in {D_Rain, D_light_rain}

\* The waterproof reminder of each template.
Reminder(template) ==
    CASE template = "home_departure" -> "Tip: Wear a waterproof jacket/umbrella."
      [] template = "home_pre_departure" -> "Remember to bring waterproof gear."
      [] template = "work_departure" -> "Tip: Wear waterproof clothing."
      [] template = "work_pre_departure" -> "Remember your waterproof gear."
Reminders == {Reminder(id) : id \in JobIds}

\* C16: a message of any of the four templates holds a waterproof reminder,
\* and then that of its template, exactly when the weather service gave an
\* answer and the chance of rain shown is above 0; the chance of rain shown
\* is 100 when the description mentions rain and 0 when it does not.
C16_ReminderIffRain ==
    sent # None =>
        LET m == sent[1].message
            present == ~Unavailable(net.weather)
        IN  /\ present <=> m.weather # None
            /\ present =>
                   m.weather[1][3] = Some(IF MentionsRain(FirstOk(net.weather).desc)
                                          THEN 100 ELSE 0)
            /\ (Pieces(m.clause) \cap Reminders # {}) <=>
                   (present /\ m.weather[1][3][1] > 0)
            /\ Pieces(m.clause) \cap Reminders \subseteq {Reminder(m.template)}

\* C16 witness: "light rain", answered at the third request, gives the Work
\* preview its reminder.
C16_Witness ==
    /\ sent # None
    /\ sent[1].message.template = "work_pre_departure"
    /\ ~Unavailable(net.weather)
    /\ FirstOk(net.weather).desc = D_light_rain
    /\ "Remember your waterproof gear." \in Pieces(sent[1].message.clause)

\* C17: between handler runs, with writes that succeed, the record read
\* back from the settings file equals the in-memory record: at startup,
\* after a restart and after each of the four setup steps; and a job that
\* fires changes neither the record nor the file.
C17_FileEqualsRecord ==
    [][/\ load_settings(disk) = user_settings
       /\ load_settings(disk') = user_settings'
       /\ \A j \in PendingJobs :
              FiresJob(j) => (user_settings' = user_settings /\ disk' = disk)]_vars

\* C17 witness: a complete record on file, a job has fired, and a second
\* setup run has rewritten the file at its Home step.
C17_Witness ==
    /\ disk = Some(user_settings)
    /\ RecordKeys \subseteq DOMAIN user_settings
    /\ sent # None
    /\ conv = WORK
    /\ reply = "Home location saved."

\* C18: a departure message shows as arrival the clock time of the firing
\* plus the minutes whenever the travel service gave an answer, for every
\* number of minutes, 0 included, and "unknown" exactly when it gave none;
\* and the weather clause is there or not by the weather service alone.
C18_ArrivalWheneverTravelTime ==
    [][\A j \in PendingJobs :
          (FiresJob(j) /\ ~IsPreview(j[2])) =>
              LET m == sent'[1].message
              IN  /\ ~Unavailable(net.travel) =>
                         /\ m.minutes = Some(FirstOk(net.travel).seconds \div 60)
                         /\ m.arrival = ClockLabel(now + (FirstOk(net.travel).seconds \div 60) * 60)
                  /\ Unavailable(net.travel) =>
                         (m.minutes = None /\ m.arrival = Unknown)
                  /\ (m.weather # None) <=> ~Unavailable(net.weather)]_vars

\* C19: every job that schedule_notifications schedules at the instant now
\* has a run date from now up to, but not including, now + 24 hours, and
\* its time of day is the stored departure time for a departure job and
\* the stored departure time minus 30 minutes, around the clock, for a
\* preview job.
C19_WithinADayAtSlotTime ==
    \A j \in PendingJobs :
        /\ now <= RunDate(j)
        /\ RunDate(j) < now + 24 * 60 * 60
        /\ RunDate(j) % (24 * 60 * 60) = SlotTod(j[2])

\* C19 witness: at 00:10:00 the Home departure 0:10 runs at once and its
\* preview at 23:40 today; the Work departure 00:00 runs tomorrow, 23 hours
\* 50 minutes ahead, and its preview at 23:30 today.
C19_Witness ==
    /\ Len(schedulers) = 1
    /\ now = 10 * 60
    /\ schedulers[1]["home_departure"] = now
    /\ schedulers[1]["home_pre_departure"] = (23 * 60 + 40) * 60
    /\ schedulers[1]["work_departure"] = 24 * 60 * 60
    /\ schedulers[1]["work_pre_departure"] = (23 * 60 + 30) * 60

\* The moves of the dialogue from a restart to Complete.
SetupMoves ==
    {<<"Idle", HOME>>, <<HOME, WORK>>, <<WORK, DEPART_HOME>>, <<DEPART_HOME, DEPART_WORK>>,
     <<DEPART_WORK, "Complete">>, <<"Cancelled", HOME>>}
    \cup {<<c, "Cancelled">> : c \in Awaiting}

\* C20: a restart leaves no scheduler and so no pending job, whatever
\* record it loads; and while there is none the dialogue moves only along
\* start, Home, Work, departure from Home, departure from Work (or to
\* Cancelled and from there to start again), and a job becomes pending only
\* in the step from AwaitingDepartWork to Complete.
C20_NoJobsAfterRestartUntilComplete ==
    [][/\ Restart => (schedulers' = <<>> /\ user_settings' = load_settings(disk))
       /\ (schedulers = <<>> /\ conv' # conv /\ ~Restart) => <<conv, conv'>> \in SetupMoves
       /\ (PendingJobs = {} /\ PendingJobs' # {}) =>
              (conv = DEPART_WORK /\ conv' = "Complete")]_vars

\* C20 witness: after a restart that loaded a complete record (a job had
\* fired before it), the setup has been driven again up to the last step
\* and still no job is pending.
C20_Witness ==
    /\ schedulers = <<>>
    /\ RecordKeys \subseteq DOMAIN user_settings
    /\ disk = Some(user_settings)
    /\ sent # None
    /\ conv = DEPART_WORK

====
